---- MODULE Spec2Model ----
(***************************************************************************)
(* Model of the Bitget perp-futures screener (src/app.py): the cached      *)
(* per-symbol feature computation get_symbol_data, the "Refresh Data" scan *)
(* loop, the empty-table check, the sidebar filter and the result display. *)
(*                                                                         *)
(* Time is counted in ticks of half a second: time.sleep(0.5) is one tick  *)
(* and the cache's ttl=60 is 120 ticks.  Floating-point values are         *)
(* modelled exactly: a slope is the fraction Num(A, B) = A/B, Pearson's r  *)
(* is Num(A, D) = A/sqrt(D), and NaN is a distinguished value.             *)
(***************************************************************************)
EXTENDS Integers, Sequences, FiniteSets, TLC

\* ---------------------------------------------------------------- bounds
\* Number of script runs (button clicks and widget reruns) explored.
MaxRuns == 2
\* Longest symbol list returned by load_markets (the code keeps [:10]).
MaxSymbols == 3
\* num_1m_candles_4h and num_1m_candles_1h, scaled down from 240 and 60.
Num4h == 3
Num1h == 2
\* Largest close, volume or open-interest value in the pure-function inputs.
MaxVal == 2

\* ------------------------------------------------------- program constants
\* @st.cache_data(ttl=60): 60 s = 120 half-second ticks.
TTL == 120
\* time.sleep(0.5): one half-second tick.
SleepTicks == 1

\* ------------------------------------------------------------ value domain
\* A float is [nan, n, d]: NaN, or the exact value n/d (for Pearson's r,
\* n/sqrt(d)).
NaN == [nan |-> TRUE, n |-> 0, d |-> 1]
Num(a, b) == [nan |-> FALSE, n |-> a, d |-> b]
None == [tag |-> "None"]
NoEntry == [tag |-> "NoEntry"]
NoTrace == [tag |-> "NoTrace"]
NoFx == [tag |-> "NoFx"]
NotComputed == [tag |-> "NotComputed"]
\* What an exchange request answers: an exception, or a list of rows.
Raise == [raised |-> TRUE, rows |-> <<>>]
Rows(r) == [raised |-> FALSE, rows |-> r]

Min(a, b) == IF a <= b THEN a ELSE b

\* the symbols the exchange lists, in listing order
Listing == <<"A", "B", "C", "D">>
Universe == {Listing[i] : i \in 1..Min(MaxSymbols, Len(Listing))}

RECURSIVE SumSeq(_)
SumSeq(s) == IF s = <<>> THEN 0 ELSE Head(s) + SumSeq(Tail(s))

\* Series.tail(n) / list[-n:] for n >= 1: the trailing min(n, len) elements.
TailN(s, n) ==
    IF Len(s) <= n THEN s ELSE SubSeq(s, Len(s) - n + 1, Len(s))

\* sums over the implicit index x = 0 .. n-1 (np.arange(len(y)))
RECURSIVE SumXY(_, _)
SumXY(y, i) == IF i > Len(y) THEN 0 ELSE (i - 1) * y[i] + SumXY(y, i + 1)

RECURSIVE SumX(_, _)
SumX(n, i) == IF i > n THEN 0 ELSE (i - 1) + SumX(n, i + 1)

RECURSIVE SumXX(_, _)
SumXX(n, i) == IF i > n THEN 0 ELSE (i - 1) * (i - 1) + SumXX(n, i + 1)

Squares(y) == [i \in 1..Len(y) |-> y[i] * y[i]]

\* n * (sum of cross deviations), n * ssxm and n * ssym, all integers
CovXY(y) == Len(y) * SumXY(y, 1) - SumX(Len(y), 1) * SumSeq(y)
VarX(y) == Len(y) * SumXX(Len(y), 1) - SumX(Len(y), 1) * SumX(Len(y), 1)
VarY(y) == Len(y) * SumSeq(Squares(y)) - SumSeq(y) * SumSeq(y)

\* r of scipy.stats.linregress(x, y): cov / sqrt(ssxm * ssym), and 0.0 when
\* the denominator would be zero.  Num(A, D) stands for A / sqrt(D).
linregress_r(y) ==
    IF VarX(y) = 0 \/ VarY(y) = 0 THEN Num(0, 1)
    ELSE Num(CovXY(y), VarX(y) * VarY(y))

\* slope of scipy.stats.linregress(x, y): ssxym / ssxm, as Num(A, B) = A / B.
linregress_slope(y) == Num(CovXY(y), VarX(y))

\* ------------------------------------------------ get_symbol_data (body)
\* A candle is [close, volume]; an open-interest history is a sequence of
\* open_interest values.  A fetch either raises or returns at most `limit`
\* (= num_1m_candles_4h) points.
Closes(ohlcv) == [i \in 1..Len(ohlcv) |-> ohlcv[i].close]
Volumes(ohlcv) == [i \in 1..Len(ohlcv) |-> ohlcv[i].volume]

\* Pearson's R of the closes, NaN below two points
pearson_r(closes) ==
    IF Len(closes) >= 2 THEN linregress_r(closes) ELSE NaN

\* slope of a trailing window, NaN below two points
period_slope(vals, num_candles) ==
    IF Len(TailN(vals, num_candles)) >= 2
    THEN linregress_slope(TailN(vals, num_candles))
    ELSE NaN

\* the record built by the try block when nothing raises
agg_data(symbol, ohlcv, oi_values) ==
    [symbol          |-> symbol,
     price           |-> ohlcv[Len(ohlcv)].close,
     volume_4h       |-> SumSeq(Volumes(ohlcv)),
     oi_4h           |-> IF oi_values # <<>>
                         THEN Num(oi_values[Len(oi_values)], 1) ELSE NaN,
     pearson_r       |-> pearson_r(Closes(ohlcv)),
     volume_slope_1h |-> period_slope(Volumes(ohlcv), Num1h),
     oi_slope_1h     |-> period_slope(oi_values, Num1h),
     volume_slope_4h |-> period_slope(Volumes(ohlcv), Num4h),
     oi_slope_4h     |-> period_slope(oi_values, Num4h)]

\* except Exception: st.write(...); return None
OnException(symbol) == None

\* The undecorated function: what it returns and which exchange requests it
\* issues, given what the two fetches answer.  An empty candle list makes
\* df_1m.iloc[-1] raise before the open-interest request is sent.
get_symbol_data(symbol, ohlcv_1m, oi_1m) ==
    IF ohlcv_1m.raised \/ ohlcv_1m.rows = <<>>
    THEN [result |-> OnException(symbol), fetches |-> <<"ohlcv">>]
    ELSE IF oi_1m.raised
    THEN [result |-> OnException(symbol), fetches |-> <<"ohlcv", "oi">>]
    ELSE [result |-> agg_data(symbol, ohlcv_1m.rows, oi_1m.rows),
          fetches |-> <<"ohlcv", "oi">>]

\* ------------------------------------------------------------- the filter
\* (a comparison that lets NaN through)
GeSlopeNaNPasses(v, m) == v.nan \/ v.n >= m * v.d

\* pandas `column >= bound` on a slope: False for NaN, else A/B >= m
GeSlope(v, m) == ~v.nan /\ v.n >= m * v.d

\* pandas `column >= bound` on r = A/sqrt(D), bound t/100: False for NaN
GeR(v, t) ==
    /\ ~v.nan
    /\ IF t <= 0
       THEN v.n >= 0 \/ 10000 * v.n * v.n <= t * t * v.d
       ELSE v.n > 0 /\ 10000 * v.n * v.n >= t * t * v.d

\* the boolean mask of lines 115-122 for one row
RowMask(row, crit) ==
    /\ row.symbol \in crit.selected_symbols
    /\ GeR(row.pearson_r, crit.min_pearson_r)
    /\ GeSlope(row.volume_slope_1h, crit.min_volume_slope_1h)
    /\ GeSlope(row.volume_slope_4h, crit.min_volume_slope_4h)
    /\ GeSlope(row.oi_slope_1h, crit.min_oi_slope_1h)
    /\ GeSlope(row.oi_slope_4h, crit.min_oi_slope_4h)

\* the rows of a table in reverse order
Reverse(table) == [i \in 1..Len(table) |-> table[Len(table) + 1 - i]]

\* (a filter that also re-sorts its output)
ApplyFilterResorted(table, crit) ==
    Reverse(SelectSeq(table, LAMBDA row : RowMask(row, crit)))

\* filtered_df = df[mask]
ApplyFilter(table, crit) == SelectSeq(table, LAMBDA row : RowMask(row, crit))

\* slider positions (hundredths, -1.0 .. 1.0) and number-input values explored
SliderValues == {-100, 0, 50}
SlopeMins == {-1, 0}

SymbolsOf(table) == {table[i].symbol : i \in 1..Len(table)}

\* the sidebar widgets: every criteria the user can set for a table
CriteriaFor(table) ==
    [selected_symbols    : SUBSET SymbolsOf(table),
     min_pearson_r       : SliderValues,
     min_volume_slope_1h : SlopeMins,
     min_volume_slope_4h : SlopeMins,
     min_oi_slope_1h     : SlopeMins,
     min_oi_slope_4h     : SlopeMins]

\* ------------------------------------------------------------------ state
VARIABLES
    symbols,      \* the module-level list of perp USDT symbols
    cache,        \* st.cache_data store of get_symbol_data, keyed by symbol
    pc,           \* position of the script run
    idx,          \* 1-based position of the scan loop (i + 1)
    data,         \* the scan loop's list of results, None included
    attempted,    \* symbols passed to get_symbol_data in this scan, in order
    progress,     \* values given to progress_bar.progress in this scan
    has_df,       \* 'df' in st.session_state
    df,           \* st.session_state['df']
    filtered_df,  \* the filter's output in this run
    shown,        \* what the run has put on the page
    runs,         \* script runs started so far
    lastReq,      \* kind of the latest exchange request and ticks since then
    trace,        \* what the latest loop iteration did
    fx            \* input and output of the pure-function harness

mainvars == <<symbols, cache, pc, idx, data, attempted, progress, has_df, df,
              filtered_df, shown, runs, lastReq, trace>>
vars == <<symbols, cache, pc, idx, data, attempted, progress, has_df, df,
          filtered_df, shown, runs, lastReq, trace, fx>>

\* ------------------------------------------------------ the exchange feed
Candle(c, v) == [close |-> c, volume |-> v]

\* candle lists the exchange answers in the scan model: none, or two
\* candles with falling closes and volumes
MarketCandles ==
    { <<>>,
      <<Candle(2, 2), Candle(1, 1)>> }

\* open-interest histories the exchange answers in the scan model
MarketOi == { <<>>, <<1, 2>> }

CandleOutcomes == {Raise} \cup {Rows(r) : r \in MarketCandles}
OiOutcomes == {Raise} \cup {Rows(r) : r \in MarketOi}

\* symbol lists load_markets can yield: the first n listed symbols
SymbolLists == {SubSeq(Listing, 1, n) : n \in 0..Min(MaxSymbols, Len(Listing))}

\* --------------------------------------------------------- st.cache_data
\* (a cache without expiry)
IsLiveForever(entry) == entry # NoEntry

\* an entry is served while it is younger than ttl
IsLive(entry) == entry # NoEntry /\ entry.age < TTL

\* every stored entry grows older by d ticks (ages are kept up to TTL)
Elapse(c, d) ==
    [s \in Universe |->
        IF c[s] = NoEntry THEN NoEntry
        ELSE [c[s] EXCEPT !.age = Min(TTL, @ + d)]]

\* the decorator stores whatever the function returned
StoreResult(c, s, value) == [c EXCEPT ![s] = [value |-> value, age |-> 0]]

\* One call of the decorated function.  On a live entry: the stored value,
\* no request.  Otherwise the body runs and its return value is stored.
\* The duration of the requests is not counted: the exchange answers at
\* once, so the distances between requests are those the code enforces.
cache_data(c, s, ohlcv_1m, oi_1m) ==
    IF IsLive(c[s])
    THEN [result |-> c[s].value, fetches |-> <<>>, hit |-> TRUE,
          computed |-> NotComputed, cache |-> c]
    ELSE LET r == get_symbol_data(s, ohlcv_1m, oi_1m)
         IN [result |-> r.result, fetches |-> r.fetches, hit |-> FALSE,
             computed |-> r.result,
             cache |-> StoreResult(c, s, r.result)]

\* ------------------------------------------------------------ script runs
\* how long the user waits before the next interaction: not at all, just
\* short of the ttl, or the whole ttl
IdleSteps == {0, TTL - 2, TTL}

NoRequest == [kind |-> "none", ago |-> SleepTicks]

\* ticks since a request, kept up to SleepTicks
Later(req, d) == [req EXCEPT !.ago = Min(SleepTicks, @ + d)]

InitMain(l) ==
    /\ symbols = l
    /\ cache = [s \in Universe |-> NoEntry]
    /\ pc = "idle"
    /\ idx = 1
    /\ data = <<>>
    /\ attempted = <<>>
    /\ progress = <<>>
    /\ has_df = FALSE
    /\ df = <<>>
    /\ filtered_df = <<>>
    /\ shown = "info"
    /\ runs = 0
    /\ lastReq = NoRequest
    /\ trace = NoTrace

\* the page after the first run: no button pressed, no 'df' in the session
Init ==
    /\ \E l \in SymbolLists : InitMain(l)
    /\ fx = NoFx

\* The user waits d ticks and presses "Refresh Data": the run enters the
\* scan loop with an empty list and a progress bar at 0.
ClickRefresh ==
    /\ pc = "idle"
    /\ runs < MaxRuns
    /\ \E d \in IdleSteps :
        /\ cache' = Elapse(cache, d)
        /\ lastReq' = Later(lastReq, d)
    /\ pc' = "scan"
    /\ idx' = 1
    /\ data' = <<>>
    /\ attempted' = <<>>
    /\ progress' = <<>>
    /\ filtered_df' = <<>>
    /\ shown' = "scanning"
    /\ runs' = runs + 1
    /\ trace' = NoTrace
    /\ UNCHANGED <<symbols, has_df, df, fx>>

\* The user waits d ticks and changes a sidebar widget: the script reruns
\* with the button unpressed and goes straight to the session's table.
Rerun ==
    /\ pc = "idle"
    /\ runs < MaxRuns
    /\ \E d \in IdleSteps :
        /\ cache' = Elapse(cache, d)
        /\ lastReq' = Later(lastReq, d)
    /\ pc' = "check"
    /\ filtered_df' = <<>>
    /\ shown' = "none"
    /\ runs' = runs + 1
    /\ trace' = NoTrace
    /\ UNCHANGED <<symbols, idx, data, attempted, progress, has_df, df, fx>>

\* (progress computed from the 0-based index)
progress_fraction_from_i(i, total) == <<i, total>>

\* progress_bar.progress((i + 1) / len(symbols)) as the fraction <<num, den>>
progress_fraction(i, total) == <<i + 1, total>>

\* (a loop without the sleep)
loop_no_sleep(call) == 0

\* time.sleep(0.5) after a loop iteration, whatever the call did
loop_sleep(call) == SleepTicks

\* the gaps between consecutive exchange requests that one call adds
RequestPairs(req, call) ==
    IF call.hit THEN <<>>
    ELSE (IF req.kind = "none" THEN <<>>
          ELSE << [prev |-> req.kind, next |-> "ohlcv", gap |-> req.ago,
                   same_call |-> FALSE] >>)
         \o
         (IF Len(call.fetches) = 2
          THEN << [prev |-> "ohlcv", next |-> "oi", gap |-> 0,
                   same_call |-> TRUE] >>
          ELSE <<>>)

\* One iteration of the scan loop: data.append(get_symbol_data(s)), the
\* progress update and the sleep.
ScanStep ==
    /\ pc = "scan"
    /\ idx <= Len(symbols)
    /\ \E ohlcv_1m \in CandleOutcomes, oi_1m \in OiOutcomes :
        LET s == symbols[idx]
            call == cache_data(cache, s, ohlcv_1m, oi_1m)
            slept == loop_sleep(call)
        IN /\ cache' = Elapse(call.cache, slept)
           /\ data' = Append(data, call.result)
           /\ attempted' = Append(attempted, s)
           /\ progress' = Append(progress,
                                 progress_fraction(idx - 1, Len(symbols)))
           /\ lastReq' = IF call.hit THEN Later(lastReq, slept)
                         ELSE [kind |-> call.fetches[Len(call.fetches)],
                               ago |-> Min(SleepTicks, slept)]
           /\ trace' = [hit |-> call.hit, fetches |-> call.fetches,
                        computed |-> call.computed, slept |-> slept,
                        pairs |-> RequestPairs(lastReq, call)]
    /\ idx' = idx + 1
    /\ UNCHANGED <<symbols, pc, has_df, df, filtered_df, shown, runs, fx>>

\* (a loop that forgets to drop the None results)
DropNoneKeepAll(results) == results

\* data = [d for d in data if d]
DropNone(results) == SelectSeq(results, LAMBDA d : d # None)

\* After the loop: drop the None results, build the table, store it in the
\* session.
ScanEnd ==
    /\ pc = "scan"
    /\ idx > Len(symbols)
    /\ df' = DropNone(data)
    /\ has_df' = TRUE
    /\ pc' = "check"
    /\ trace' = NoTrace
    /\ UNCHANGED <<symbols, cache, idx, data, attempted, progress,
                   filtered_df, shown, runs, lastReq, fx>>

\* (a run that skips the empty-table check)
IsEmptyTableNever(table) == FALSE

\* df.empty
IsEmptyTable(table) == table = <<>>

\* `if 'df' in st.session_state`: without a table the run shows the info
\* text; on an empty table it shows the error and st.stop() ends the run.
CheckDf ==
    /\ pc = "check"
    /\ IF ~has_df THEN shown' = "info" /\ pc' = "idle"
       ELSE IF IsEmptyTable(df) THEN shown' = "error" /\ pc' = "idle"
       ELSE shown' = shown /\ pc' = "filter"
    /\ UNCHANGED <<symbols, cache, idx, data, attempted, progress, has_df, df,
                   filtered_df, runs, lastReq, trace, fx>>

\* the sidebar widgets are read and the mask is applied
Filter ==
    /\ pc = "filter"
    /\ \E crit \in CriteriaFor(df) : filtered_df' = ApplyFilter(df, crit)
    /\ pc' = "display"
    /\ UNCHANGED <<symbols, cache, idx, data, attempted, progress, has_df, df,
                   shown, runs, lastReq, trace, fx>>

\* 'Screener Results': the table and a success line, or 'No matches.'
Display ==
    /\ pc = "display"
    /\ shown' = IF filtered_df # <<>> THEN "matches" ELSE "nomatches"
    /\ pc' = "charts"
    /\ UNCHANGED <<symbols, cache, idx, data, attempted, progress, has_df, df,
                   filtered_df, runs, lastReq, trace, fx>>

\* 'Charts': every row of the filtered table has its 24 h candles and open
\* interest requested (uncached); the run ends here, with or without an
\* exception from these requests.
Charts ==
    /\ pc = "charts"
    /\ lastReq' = IF filtered_df # <<>> THEN [kind |-> "chart", ago |-> 0]
                  ELSE lastReq
    /\ pc' = "idle"
    /\ UNCHANGED <<symbols, cache, idx, data, attempted, progress, has_df, df,
                   filtered_df, shown, runs, trace, fx>>

Next ==
    \/ ClickRefresh
    \/ Rerun
    \/ ScanStep
    \/ ScanEnd
    \/ CheckDf
    \/ Filter
    \/ Display
    \/ Charts

Spec == Init /\ [][Next]_vars

\* the scan loop is straight-line code: once entered it keeps running
FairSpec == Spec /\ WF_vars(ScanStep) /\ WF_vars(ScanEnd)

\* ------------------------------------------- the pure-function harness
\* get_symbol_data's body and the filter mask applied to bounded inputs:
\* every candle list of up to Num4h candles (the fetch's limit) with closes
\* and volumes in 1..MaxVal beside the open-interest histories of the scan
\* model, and every open-interest list of up to Num4h values in 1..MaxVal
\* beside the candle lists of the scan model.
RECURSIVE SeqsUpTo(_, _)
SeqsUpTo(S, n) ==
    IF n = 0 THEN {<<>>}
    ELSE SeqsUpTo(S, n - 1) \cup [1..n -> S]

AllCandles == {Candle(c, v) : c \in 1..MaxVal, v \in 1..MaxVal}
AllCandleOutcomes == {Raise} \cup {Rows(r) : r \in SeqsUpTo(AllCandles, Num4h)}
AllOiOutcomes == {Raise} \cup {Rows(r) : r \in SeqsUpTo(1..MaxVal, Num4h)}

HarnessInputs ==
    (AllCandleOutcomes \X OiOutcomes) \cup (CandleOutcomes \X AllOiOutcomes)

NoCrit == [tag |-> "NoCrit"]

InitFeat ==
    /\ InitMain(<<>>)
    /\ \E in \in HarnessInputs :
        fx = [stage |-> "fetched", ohlcv_1m |-> in[1], oi_1m |-> in[2],
              result |-> NotComputed, crit |-> NoCrit, filtered_df |-> <<>>]

\* the body of get_symbol_data runs on the fetched series
Extract ==
    /\ fx.stage = "fetched"
    /\ fx' = [fx EXCEPT
                !.stage = "extracted",
                !.result = get_symbol_data("A", fx.ohlcv_1m, fx.oi_1m).result]
    /\ UNCHANGED mainvars

\* the one-row table of a successful extraction goes through the mask
FilterRow ==
    /\ fx.stage = "extracted"
    /\ fx.result # None
    /\ \E crit \in CriteriaFor(<<fx.result>>) :
        fx' = [fx EXCEPT !.stage = "filtered", !.crit = crit,
                         !.filtered_df = ApplyFilter(<<fx.result>>, crit)]
    /\ UNCHANGED mainvars

NextFeat == Extract \/ FilterRow

SpecFeat == InitFeat /\ [][NextFeat]_vars

\* ----------------------------------------------------------------- claims
\* the scan is over and `data`, `df` are those of the latest scan
ScanCompleted == has_df /\ pc # "scan"

\* the table's symbols, in row order
SymbolColumn(table) == [i \in 1..Len(table) |-> table[i].symbol]

\* the symbol list without its k-th element
Without(l, k) == SubSeq(l, 1, k - 1) \o SubSeq(l, k + 1, Len(l))

\* C1: when exactly one symbol k of a completed scan failed, the scan still
\* went through every symbol of the list and the table holds exactly the
\* other N-1 symbols, in list order, and no row for k.
FailureIsolation ==
    ScanCompleted =>
        \A k \in 1..Len(data) :
            (data[k] = None /\ \A j \in 1..Len(data) : j # k => data[j] # None)
            => /\ attempted = symbols
               /\ Len(df) = Len(symbols) - 1
               /\ SymbolColumn(df) = Without(symbols, k)

\* a scan of two or more symbols whose first symbol failed and whose
\* others went on to succeed
WitnessFailureIsolation ==
    /\ ScanCompleted
    /\ Len(symbols) >= 2
    /\ data[1] = None
    /\ \A j \in 2..Len(data) : data[j] # None
    /\ Len(df) = Len(symbols) - 1

\* a loop iteration is taken from this state to the next
IsScanStep == pc = "scan" /\ idx <= Len(symbols) /\ idx' = idx + 1

\* C2: a stored failure is never served: a call for a symbol whose latest
\* computation failed sends the exchange request again.
FailureNotCached ==
    [][(IsScanStep /\ cache[symbols[idx]] # NoEntry
                   /\ cache[symbols[idx]].value = None)
       => trace'.fetches # <<>>]_vars

\* C3: for a key whose stored computation succeeded, a call within the ttl
\* sends no request and returns the stored record; a call once the ttl has
\* elapsed sends the requests again and returns (and stores) what the new
\* computation produced.
CacheTTL ==
    [][(IsScanStep /\ cache[symbols[idx]] # NoEntry
                   /\ cache[symbols[idx]].value # None)
       => IF cache[symbols[idx]].age < TTL
          THEN /\ trace'.fetches = <<>>
               /\ data'[idx] = cache[symbols[idx]].value
          ELSE /\ trace'.fetches # <<>>
               /\ trace'.computed # NotComputed
               /\ data'[idx] = trace'.computed
               /\ cache'[symbols[idx]].value = trace'.computed]_vars

\* in a later scan a symbol's record of the previous scan had expired: the
\* requests were sent again and the call returned the new record, which
\* differs from the one the previous scan's table holds
WitnessCacheTTL ==
    /\ pc = "scan" /\ has_df /\ idx = 2
    /\ Len(df) = Len(symbols)
    /\ ~trace.hit /\ trace.fetches = <<"ohlcv", "oi">>
    /\ data[1] # None /\ data[1] # df[1]
    /\ cache[symbols[1]].value = data[1]

\* C4: an empty table never reaches the filter, the result display or the
\* charts, is never reported as matches or 'No matches.', and a run that
\* finds it ends on the error message.
EmptyHardStop ==
    (has_df /\ df = <<>>)
    => /\ pc \notin {"filter", "display", "charts"}
       /\ shown \notin {"matches", "nomatches"}
       /\ pc = "idle" => shown = "error"

\* a scan over a non-empty list in which every symbol failed has ended on
\* the error message
WitnessEmptyHardStop ==
    /\ has_df /\ df = <<>>
    /\ Len(symbols) >= 1 /\ Len(data) = Len(symbols)
    /\ pc = "idle" /\ shown = "error"

\* one of the five filtered features of a record is NaN
HasNaN(row) ==
    \/ row.pearson_r.nan
    \/ row.volume_slope_1h.nan
    \/ row.volume_slope_4h.nan
    \/ row.oi_slope_1h.nan
    \/ row.oi_slope_4h.nan

\* C5: a record with a NaN among pearson_r and the four slopes is absent
\* from the filtered table, whatever the criteria.
NullFailsThreshold ==
    (fx.stage = "filtered" /\ HasNaN(fx.result)) => fx.filtered_df = <<>>

\* a record whose pearson_r is NaN was filtered out with the slider at -1.0
\* and its symbol selected
WitnessNullFailsThreshold ==
    /\ fx.stage = "filtered"
    /\ fx.result.pearson_r.nan
    /\ fx.crit.min_pearson_r = -100
    /\ fx.result.symbol \in fx.crit.selected_symbols
    /\ fx.filtered_df = <<>>

\* C6 (as stated): any two consecutive exchange requests of the scan, for
\* the same or for different symbols, are SleepTicks or more apart.
RateSpacing ==
    trace # NoTrace =>
        \A i \in 1..Len(trace.pairs) :
            trace.pairs[i].prev # "chart"
            => trace.pairs[i].gap >= SleepTicks

\* C6 (amended): two consecutive requests of the scan that belong to
\* different get_symbol_data calls are SleepTicks or more apart.
RateSpacingBetweenCalls ==
    trace # NoTrace =>
        \A i \in 1..Len(trace.pairs) :
            (trace.pairs[i].prev # "chart" /\ ~trace.pairs[i].same_call)
            => trace.pairs[i].gap >= SleepTicks

\* a call sent its candle request right after the previous symbol's
\* iteration, whose last request lies a sleep back
WitnessRateSpacingBetweenCalls ==
    /\ trace # NoTrace
    /\ idx >= 3
    /\ Len(trace.pairs) = 2
    /\ trace.pairs[1].prev = "oi" /\ ~trace.pairs[1].same_call
    /\ trace.pairs[1].gap = SleepTicks

\* every close of a candle list is the same
FlatCloses(rows) == \A i \in 1..Len(rows) : rows[i].close = rows[1].close

\* C7: two or more candles with identical closes give pearson_r = NaN, the
\* value produced for fewer than two candles.
DegenerateRegression ==
    (/\ fx.stage = "extracted"
     /\ fx.result # None
     /\ Len(fx.ohlcv_1m.rows) >= 2
     /\ FlatCloses(fx.ohlcv_1m.rows))
    => fx.result.pearson_r = pearson_r(<<>>)

\* C8: a scan that has started ends, and when it ends every symbol of the
\* list has been attempted exactly once, in list order, with the i-th
\* reported progress equal to i / total.
ScanTerminates ==
    (pc = "scan" /\ idx = 1)
    ~> (/\ pc = "check"
        /\ attempted = symbols
        /\ Len(data) = Len(symbols)
        /\ progress = [i \in 1..Len(symbols) |-> <<i, Len(symbols)>>])

\* a second scan of two or more symbols has ended with a failure, a success
\* and the bar at total / total
WitnessScanTerminates ==
    /\ pc = "check" /\ runs = 2
    /\ Len(symbols) >= 2
    /\ attempted = symbols
    /\ data[1] = None /\ data[2] # None
    /\ progress[Len(symbols)] = <<Len(symbols), Len(symbols)>>

\* the rows of `table` that occur in `sub`, in the order of `table`
Selection(table, sub) ==
    SelectSeq(table, LAMBDA row : \E i \in 1..Len(sub) : sub[i] = row)

\* C9: the filter step leaves the session's table and the cache as they are
\* and yields a subsequence of the table in the table's row order.
FilterPure ==
    [][pc = "filter"
       => /\ df' = df /\ has_df' = has_df
          /\ cache' = cache
          /\ filtered_df' = Selection(df, filtered_df')]_vars

\* a widget rerun (no scan in this run) filtered the stored table down to a
\* non-empty proper part of it
WitnessFilterPure ==
    /\ pc = "display" /\ shown = "none" /\ runs = 2
    /\ 0 < Len(filtered_df)
    /\ Len(filtered_df) < Len(df)

\* C10: a loop iteration served from the cache sleeps no tick.
HitsNoDelay ==
    (trace # NoTrace /\ trace.hit) => trace.slept = 0

====
